---- MODULE Spec2Model ----
(***************************************************************************)
(* Model of the Shape Key Transfer add-on (src/Shape_Key_Transfer.py).     *)
(*                                                                         *)
(* The add-on's three operators (transfer one shape key, transfer all      *)
(* shape keys, transfer drivers) act on the active object (the target)     *)
(* and on props.source_object (the source).  A mesh object is a record     *)
(*   vertices   : the mesh's vertex coordinates (data.vertices[i].co)      *)
(*   select     : the indices i with data.vertices[i].select               *)
(*   key_blocks : data.shape_keys.key_blocks, a sequence of                *)
(*                [name, data, value]; <<>> when data.shape_keys is None   *)
(*   drivers    : data.shape_keys.animation_data.drivers, a sequence of    *)
(*                [data_path, type, expression, variables]                 *)
(* A coordinate is one integer: the code adds and subtracts vectors        *)
(* componentwise, so one component stands for the three, and the           *)
(* arithmetic is exact.  Python's 0-based index i is i+1 here.             *)
(***************************************************************************)
EXTENDS Integers, Sequences, FiniteSets, TLC

\* ---------------------------------------------------------------- bounds
\* The target mesh has MaxVerts vertices; the scene's other meshes have
\* MaxVerts (the same topology) or MaxVerts + 1 (a different one).
MaxVerts == 2

\* ------------------------------------------------------------- vocabulary
None == "None"
\* props.source_object unset: no object of the scene.
NoObject == [type |-> "None"]
Basis == "Basis"
\* "C" names a shape key no source object has.
KeyNames == {Basis, "A", "B", "C"}
VertCounts == {MaxVerts, MaxVerts + 1}
Modes == {"FULL", "NAMES_ONLY"}

VARIABLES
    scene,   \* the other mesh objects of the scene, one per vertex count
    target,  \* context.active_object
    props,   \* target.shape_key_transfer_props
    last     \* the operator invocation that made the target what it is under the
             \* properties as they are: what ran, its result, its reports; Idle
             \* before the first one and once a property is edited

vars == <<scene, target, props, last>>

\* ------------------------------------------------------- property group
\* ShapeKeyTransferProperties' defaults.
DefaultProps ==
    [enabled |-> FALSE, source_object |-> NoObject, transfer_mode |-> "FULL",
     only_selected_vertices |-> FALSE]

\* update_enabled: disabling clears the other properties.
update_enabled(p) ==
    IF ~p.enabled
      THEN [p EXCEPT !.source_object = NoObject, !.transfer_mode = "FULL",
                     !.only_selected_vertices = FALSE]
      ELSE p

\* ------------------------------------------------------------ shape keys
HasShapeKeys(obj) == obj.key_blocks # <<>>

KeyBlockNames(obj) == {obj.key_blocks[k].name : k \in 1..Len(obj.key_blocks)}

\* name in obj.data.shape_keys.key_blocks
HasKey(obj, name) == name \in KeyBlockNames(obj)

\* key_blocks[name]: the first block of that name.
KeyIndex(obj, name) ==
    CHOOSE k \in 1..Len(obj.key_blocks) :
        /\ obj.key_blocks[k].name = name
        /\ \A j \in 1..(k - 1) : obj.key_blocks[j].name # name

KeyBlock(obj, name) == obj.key_blocks[KeyIndex(obj, name)]

\* obj.shape_key_add(name=name, from_mix=False): a new block at the end, its
\* data the mesh's vertex coordinates, its value 0.
shape_key_add(obj, name) ==
    [obj EXCEPT !.key_blocks =
        Append(@, [name |-> name, data |-> obj.vertices, value |-> 0])]

\* Mutant: a Basis is added without looking whether the target has shape keys.
EnsureBasis_always(obj) == shape_key_add(obj, Basis)

\* "Ensure target has basis shape key".
EnsureBasis(obj) ==
    IF ~HasShapeKeys(obj) THEN shape_key_add(obj, Basis) ELSE obj

\* Mutant: a new shape key is created whether or not one of the name exists.
ResolveOrCreate_always(obj, name) == shape_key_add(obj, name)

\* "Check if target already has this shape key", else "Create new shape key".
ResolveOrCreate(obj, name) ==
    IF HasKey(obj, name) THEN obj ELSE shape_key_add(obj, name)

\* selected_vertices as the FULL branch computes it.
SelectedVertices(source_obj, p) ==
    IF p.only_selected_vertices
      THEN {i \in 1..Len(source_obj.vertices) : i \in source_obj.select}
      ELSE {}

\* Mutant: the selection is never consulted.
Skipped_never(p, selected_vertices, i) == FALSE

\* Mutant: an empty selection stands for every vertex.
Skipped_emptyMeansAll(p, selected_vertices, i) ==
    p.only_selected_vertices /\ selected_vertices # {} /\ i \notin selected_vertices

\* The loop's skip test: "only selected vertices mode is enabled and this
\* vertex is not selected".
Skipped(p, selected_vertices, i) ==
    p.only_selected_vertices /\ i \notin selected_vertices

\* delta = source_co - source_basis_co
Delta(source_obj, source_name, i) ==
    KeyBlock(source_obj, source_name).data[i] - KeyBlock(source_obj, Basis).data[i]

\* Mutant: the source's coordinate is copied as it is.
ApplyDelta_absolute(tgt, k, source_obj, source_name, i) ==
    [tgt EXCEPT !.key_blocks[k].data[i] = KeyBlock(source_obj, source_name).data[i]]

\* Mutant: the delta is added to what the target shape key holds (target_co).
ApplyDelta_cumulative(tgt, k, source_obj, source_name, i) ==
    [tgt EXCEPT !.key_blocks[k].data[i] = @ + Delta(source_obj, source_name, i)]

\* target_key.data[i].co = basis_co + delta
ApplyDelta(tgt, k, source_obj, source_name, i) ==
    [tgt EXCEPT !.key_blocks[k].data[i] =
        KeyBlock(tgt, Basis).data[i] + Delta(source_obj, source_name, i)]

\* for i in range(len(target_obj.data.vertices)), from index i on.
RECURSIVE TransferVertexData(_, _, _, _, _, _, _)
TransferVertexData(tgt, k, source_obj, source_name, p, selected_vertices, i) ==
    IF i > Len(tgt.vertices) THEN tgt
    ELSE TransferVertexData(
            IF Skipped(p, selected_vertices, i) THEN tgt
            ELSE ApplyDelta(tgt, k, source_obj, source_name, i),
            k, source_obj, source_name, p, selected_vertices, i + 1)

\* Mutant: the value is not copied; the target shape key keeps its own.
TransferValue_kept(tgt, k, source_obj, source_name) == tgt

\* target_key.value = source_key.value
TransferValue(tgt, k, source_obj, source_name) ==
    [tgt EXCEPT !.key_blocks[k].value = KeyBlock(source_obj, source_name).value]

VertexCountMismatch(source_obj, target_obj) ==
    Len(target_obj.vertices) # Len(source_obj.vertices)

\* What an execute() hands back: the target as it leaves it, the operator's
\* result, the kind of its report and the number of report calls it made.
Outcome(tgt, result, report, reports, count) ==
    [target |-> tgt, result |-> result, report |-> report, reports |-> reports,
     count |-> count]

Cancelled(tgt, report) == Outcome(tgt, "CANCELLED", report, 1, 0)

\* ---------------------------------------- OBJECT_OT_TransferShapeKey
TransferShapeKey_execute(source_obj, target_obj, p, shape_key_name) ==
    IF source_obj = NoObject THEN Cancelled(target_obj, "MissingEndpoint")
    ELSE IF ~HasShapeKeys(source_obj)
      THEN Cancelled(target_obj, "SourceHasNoChannels")
    ELSE IF ~HasKey(source_obj, shape_key_name)
      THEN Cancelled(target_obj, "ChannelNotFound")
    ELSE
      LET t1 == EnsureBasis(target_obj)
          t2 == ResolveOrCreate(t1, shape_key_name)
          k  == KeyIndex(t2, shape_key_name)
      IN  IF p.transfer_mode = "FULL" /\ VertexCountMismatch(source_obj, t2)
            THEN Cancelled(t2, "VertexCountMismatch")
          ELSE
            LET selected_vertices == SelectedVertices(source_obj, p)
                t3 == IF p.transfer_mode = "FULL"
                        THEN TransferVertexData(t2, k, source_obj, shape_key_name,
                                                p, selected_vertices, 1)
                        ELSE t2
                t4 == TransferValue(t3, k, source_obj, shape_key_name)
            IN  Outcome(t4, "FINISHED", "INFO", 1,
                        IF p.transfer_mode = "FULL" /\ p.only_selected_vertices
                          THEN Cardinality(selected_vertices) ELSE 0)

\* ------------------------------------- OBJECT_OT_TransferAllShapeKeys
\* Mutant: the loop does not skip the block named Basis.
RECURSIVE TransferAllLoop_noSkip(_, _, _, _)
TransferAllLoop_noSkip(tgt, source_obj, p, j) ==
    IF j > Len(source_obj.key_blocks) THEN tgt
    ELSE
      LET name == source_obj.key_blocks[j].name
          t2 == ResolveOrCreate(tgt, name)
          k  == KeyIndex(t2, name)
          t3 == IF p.transfer_mode = "FULL"
                  THEN TransferVertexData(t2, k, source_obj, name, p,
                                          SelectedVertices(source_obj, p), 1)
                  ELSE t2
          t4 == TransferValue(t3, k, source_obj, name)
      IN  TransferAllLoop_noSkip(t4, source_obj, p, j + 1)

\* One pass of "for source_key in source_obj.data.shape_keys.key_blocks":
\* the block at position j of the source, then the blocks after it.
RECURSIVE TransferAllLoop(_, _, _, _)
TransferAllLoop(tgt, source_obj, p, j) ==
    IF j > Len(source_obj.key_blocks) THEN tgt
    ELSE IF source_obj.key_blocks[j].name = Basis
      THEN TransferAllLoop(tgt, source_obj, p, j + 1)
    ELSE
      LET name == source_obj.key_blocks[j].name
          t2 == ResolveOrCreate(tgt, name)
          k  == KeyIndex(t2, name)
          t3 == IF p.transfer_mode = "FULL"
                  THEN TransferVertexData(t2, k, source_obj, name, p,
                                          SelectedVertices(source_obj, p), 1)
                  ELSE t2
          t4 == TransferValue(t3, k, source_obj, name)
      IN  TransferAllLoop(t4, source_obj, p, j + 1)

\* transferred: one per source block that is not named Basis.
Transferred(source_obj) ==
    Cardinality({j \in 1..Len(source_obj.key_blocks) :
                    source_obj.key_blocks[j].name # Basis})

\* selected_vertices is assigned only inside the loop body, in FULL mode;
\* "selected_count = len(selected_vertices)" after the loop reads it.
SelectedVerticesBound(source_obj, p) ==
    p.transfer_mode = "FULL" /\ Transferred(source_obj) > 0

\* Mutant: the vertex counts are compared after the Basis is ensured, as the
\* single-key operator does.
TransferAllShapeKeys_execute_lateGuard(source_obj, target_obj, p) ==
    IF p.transfer_mode = "FULL" /\ VertexCountMismatch(source_obj, target_obj)
      THEN Cancelled(EnsureBasis(target_obj), "VertexCountMismatch")
      ELSE Outcome(TransferAllLoop(EnsureBasis(target_obj), source_obj, p, 1),
                   "FINISHED", "INFO", 1, Transferred(source_obj))

TransferAllShapeKeys_execute(source_obj, target_obj, p) ==
    IF source_obj = NoObject THEN Cancelled(target_obj, "MissingEndpoint")
    ELSE IF ~HasShapeKeys(source_obj)
      THEN Cancelled(target_obj, "SourceHasNoChannels")
    ELSE IF p.transfer_mode = "FULL" /\ VertexCountMismatch(source_obj, target_obj)
      THEN Cancelled(target_obj, "VertexCountMismatch")
    ELSE
      LET t1 == EnsureBasis(target_obj)
          t2 == TransferAllLoop(t1, source_obj, p, 1)
      IN  IF p.transfer_mode = "FULL" /\ p.only_selected_vertices
            THEN IF SelectedVerticesBound(source_obj, p)
                   THEN Outcome(t2, "FINISHED", "INFO", 1, Transferred(source_obj))
                   \* NameError: the operator ends in an unhandled exception
                   ELSE Outcome(t2, "FAULT", "none", 0, Transferred(source_obj))
            ELSE Outcome(t2, "FINISHED", "INFO", 1, Transferred(source_obj))

\* ------------------------------------------ OBJECT_OT_TransferDrivers
\* f'key_blocks["{shape_key_name}"].value'
ValuePath(shape_key_name) == <<"key_blocks", shape_key_name, "value">>

\* The fields of a variable target the operator copies.
TargetFields == {"id", "bone_target", "data_path", "transform_type", "transform_space"}

\* A driver variable target as variables.new() makes it.  id_type says what
\* kind of datablock id may hold; the operator never copies it.
DefaultTarget ==
    [id_type |-> "OBJECT", id |-> None, bone_target |-> "", data_path |-> "",
     transform_type |-> "LOC_X", transform_space |-> "WORLD_SPACE"]

\* The assignments "target_target.f = source_target.f" that raise: the one
\* to id, when the source's id is not of the kind the new target holds.
Rejected(target_target, source_target) ==
    IF source_target.id_type # target_target.id_type THEN {"id"} ELSE {}

\* The number of targets a variable of the given type has.
NumTargets(type) == IF type \in {"ROTATION_DIFF", "LOC_DIFF"} THEN 2 ELSE 1

\* The five "try: target_target.f = source_target.f / except: pass".
CopyTarget(target_target, source_target) ==
    [f \in DOMAIN target_target |->
        IF f \in TargetFields /\ f \notin Rejected(target_target, source_target)
          THEN source_target[f] ELSE target_target[f]]

\* target_driver.variables.new(), then its name, its type and its targets.
CopyVariable(source_var) ==
    [name |-> source_var.name, type |-> source_var.type,
     targets |-> [i \in 1..NumTargets(source_var.type) |->
                    IF i <= Len(source_var.targets)
                      THEN CopyTarget(DefaultTarget, source_var.targets[i])
                      ELSE DefaultTarget]]

\* driver_add(path).driver with the source driver's type, expression and variables.
CopyDriver(shape_key_name, source_driver) ==
    [data_path |-> ValuePath(shape_key_name),
     type |-> source_driver.type,
     expression |-> source_driver.expression,
     variables |-> [v \in 1..Len(source_driver.variables) |->
                      CopyVariable(source_driver.variables[v])]]

OnPath(driver, shape_key_name) == driver.data_path = ValuePath(shape_key_name)

\* source_drivers: the source's drivers on the shape key's value, in order.
SourceDrivers(source_obj, shape_key_name) ==
    SelectSeq(source_obj.drivers, LAMBDA d : OnPath(d, shape_key_name))

\* Mutant: the target's drivers on the path stay (a merge, not a replace).
RemoveDrivers_none(drivers, shape_key_name) == drivers

\* "Remove existing drivers from target shape key".
RemoveDrivers(drivers, shape_key_name) ==
    SelectSeq(drivers, LAMBDA d : ~OnPath(d, shape_key_name))

\* "Copy drivers from source to target": a new driver per source driver.
AddDrivers(drivers, shape_key_name, source_drivers) ==
    drivers \o [n \in 1..Len(source_drivers) |->
                  CopyDriver(shape_key_name, source_drivers[n])]

\* The body of "for shape_key_name in matching_shape_keys" for one name.
TransferDriversFor(tgt, source_obj, shape_key_name) ==
    LET source_drivers == SourceDrivers(source_obj, shape_key_name)
    IN  IF source_drivers # <<>>
          THEN [tgt EXCEPT !.drivers =
                  AddDrivers(RemoveDrivers(@, shape_key_name), shape_key_name,
                             source_drivers)]
          ELSE tgt

\* The loop over matching_shape_keys, a set: order is the order in which the
\* iteration happens to visit the names.
RECURSIVE TransferDriversLoop(_, _, _, _)
TransferDriversLoop(tgt, source_obj, order, n) ==
    IF n > Len(order) THEN tgt
    ELSE TransferDriversLoop(TransferDriversFor(tgt, source_obj, order[n]),
                             source_obj, order, n + 1)

NonBasisNames(obj) == {name \in KeyBlockNames(obj) : name # Basis}

\* source_shape_keys.intersection(target_shape_keys)
MatchingShapeKeys(source_obj, target_obj) ==
    NonBasisNames(source_obj) \cap NonBasisNames(target_obj)

\* The orders in which a set may be iterated.
Orders(S) ==
    {o \in [1..Cardinality(S) -> S] : \A a, b \in 1..Cardinality(S) : o[a] = o[b] => a = b}

\* transferred_drivers
TransferredDrivers(source_obj, matching) ==
    Cardinality({n \in 1..Len(source_obj.drivers) :
                    \E name \in matching : OnPath(source_obj.drivers[n], name)})

\* Mutant: a mesh whose only shape key is the Basis counts as having none.
TransferDrivers_execute_nonBasis(source_obj, target_obj, order) ==
    IF NonBasisNames(source_obj) = {} THEN Cancelled(target_obj, "SourceHasNoChannels")
    ELSE IF NonBasisNames(target_obj) = {} THEN Cancelled(target_obj, "TargetHasNoChannels")
    ELSE IF MatchingShapeKeys(source_obj, target_obj) = {}
      THEN Cancelled(target_obj, "NoMatchingChannels")
    ELSE
      Outcome(TransferDriversLoop(target_obj, source_obj, order, 1),
              "FINISHED", "INFO", 1,
              TransferredDrivers(source_obj, MatchingShapeKeys(source_obj, target_obj)))

TransferDrivers_execute(source_obj, target_obj, order) ==
    IF source_obj = NoObject THEN Cancelled(target_obj, "MissingEndpoint")
    ELSE IF ~HasShapeKeys(source_obj)
      THEN Cancelled(target_obj, "SourceHasNoChannels")
    ELSE IF ~HasShapeKeys(target_obj)
      THEN Cancelled(target_obj, "TargetHasNoChannels")
    ELSE IF MatchingShapeKeys(source_obj, target_obj) = {}
      THEN Cancelled(target_obj, "NoMatchingChannels")
    ELSE
      Outcome(TransferDriversLoop(target_obj, source_obj, order, 1),
              "FINISHED", "INFO", 1,
              TransferredDrivers(source_obj, MatchingShapeKeys(source_obj, target_obj)))

\* ------------------------------------------------------------ the scene
\* The target mesh's vertex coordinates: vertex i lies at i.
TargetCo(n) == [i \in 1..n |-> i]

\* A source mesh is a scaled duplicate: vertex i lies at 2 * i.
SourceCo(n) == [i \in 1..n |-> 2 * i]

KeyBlockOf(name, data, value) == [name |-> name, data |-> data, value |-> value]

\* Source shape key "A" moves vertex i by i, "B" moves every vertex by -1.
SourceKeyA(co) == KeyBlockOf("A", [i \in 1..Len(co) |-> co[i] + i], 1)
SourceKeyB(co) == KeyBlockOf("B", [i \in 1..Len(co) |-> co[i] - 1], 2)

\* A target on a property of the shape key datablock (not an object), and a
\* target on a bone of the armature object.
PropTarget(path) ==
    [DefaultTarget EXCEPT !.id_type = "KEY", !.id = "Key", !.data_path = path]
BoneTarget(bone) ==
    [DefaultTarget EXCEPT !.id = "Armature", !.bone_target = bone,
                          !.transform_type = "ROT_X", !.transform_space = "LOCAL_SPACE"]

Variable(name, type, targets) == [name |-> name, type |-> type, targets |-> targets]

Driver(shape_key_name, type, expression, variables) ==
    [data_path |-> ValuePath(shape_key_name), type |-> type,
     expression |-> expression, variables |-> variables]

\* A scripted driver with two variables of different types, an averaging
\* driver with one, and the kind of driver a target carries beforehand.
ScriptedDriver(shape_key_name) ==
    Driver(shape_key_name, "SCRIPTED", "frame/24",
           <<Variable("var", "SINGLE_PROP", <<PropTarget("location.x")>>),
             Variable("rot", "ROTATION_DIFF", <<BoneTarget("jaw"), BoneTarget("head")>>)>>)
AverageDriver(shape_key_name) ==
    Driver(shape_key_name, "AVERAGE", "",
           <<Variable("amount", "TRANSFORMS", <<BoneTarget("brow")>>)>>)
OldDriver(shape_key_name) ==
    Driver(shape_key_name, "SUM", "",
           <<Variable("old", "SINGLE_PROP", <<PropTarget("scale.z")>>)>>)

MeshObject(co, select, key_blocks, drivers) ==
    [vertices |-> co, select |-> select, key_blocks |-> key_blocks, drivers |-> drivers]

SourceShapes == {"no keys", "basis only", "A B", "B A", "A"}

\* The source objects of the scene.  Every one with shape keys has a block
\* named Basis that holds the mesh's vertex coordinates; a value path has at
\* most one driver.
SourceObject(n, shape, select) ==
    LET co == SourceCo(n)
        sel == select \cap (1..n)
        basis == KeyBlockOf(Basis, co, 0)
    IN  CASE shape = "no keys"    -> MeshObject(co, sel, <<>>, <<>>)
          [] shape = "basis only" -> MeshObject(co, sel, <<basis>>, <<>>)
          [] shape = "A B" ->
               MeshObject(co, sel, <<basis, SourceKeyA(co), SourceKeyB(co)>>,
                          <<ScriptedDriver("A")>>)
          [] shape = "B A" ->
               MeshObject(co, sel, <<basis, SourceKeyB(co), SourceKeyA(co)>>,
                          <<AverageDriver("B"), ScriptedDriver("A")>>)
          [] shape = "A" ->
               MeshObject(co, sel, <<KeyBlockOf(Basis, co, 1), SourceKeyA(co)>>, <<>>)

TargetShapes == {"no keys", "A C", "B A"}

\* The target as the user brings it: without shape keys, or with a Basis and
\* shape keys of its own making (data and values unlike any source's).
TargetObject(n, shape) ==
    LET co == TargetCo(n)
        basis == KeyBlockOf(Basis, co, 0)
        own(name, d) == KeyBlockOf(name, [i \in 1..n |-> co[i] + d], 3)
    IN  CASE shape = "no keys" -> MeshObject(co, {}, <<>>, <<>>)
          [] shape = "A C" ->
               MeshObject(co, {}, <<basis, own("A", 5), own("C", 6)>>,
                          <<OldDriver("A"), OldDriver("C")>>)
          [] shape = "B A" ->
               MeshObject(co, {}, <<basis, own("B", 7), own("A", 5)>>,
                          <<OldDriver("B")>>)

Idle ==
    [op |-> "none", shape_key_name |-> None,
     result |-> "none", report |-> "none", reports |-> 0, count |-> 0]

Init ==
    /\ \E shape \in SourceShapes, select \in SUBSET (1..MaxVerts) :
          scene = [n \in VertCounts |-> SourceObject(n, shape, select)]
    /\ \E shape \in TargetShapes : target = TargetObject(MaxVerts, shape)
    /\ props = DefaultProps
    /\ last = Idle

\* -------------------------------------------------------------- actions
\* The objects props.source_object may point to.
SceneObjects == {scene[n] : n \in VertCounts}

\* The operators' poll(): the add-on is enabled for the active object and the
\* source object is set and has shape keys.
poll ==
    /\ props.enabled
    /\ props.source_object # NoObject
    /\ HasShapeKeys(props.source_object)

\* The record of an invocation.
Invocation(op, shape_key_name, out) ==
    [op |-> op, shape_key_name |-> shape_key_name,
     result |-> out.result, report |-> out.report, reports |-> out.reports,
     count |-> out.count]

\* The "enabled" checkbox, with its update callback.
SetEnabled(b) ==
    /\ props' = update_enabled([props EXCEPT !.enabled = b])
    /\ last' = Idle
    /\ UNCHANGED <<scene, target>>

\* The panel shows the other properties only while enabled.
SetSourceObject(o) ==
    /\ props.enabled
    /\ props' = [props EXCEPT !.source_object = o]
    /\ last' = Idle
    /\ UNCHANGED <<scene, target>>

SetTransferMode(m) ==
    /\ props.enabled
    /\ props' = [props EXCEPT !.transfer_mode = m]
    /\ last' = Idle
    /\ UNCHANGED <<scene, target>>

SetOnlySelectedVertices(b) ==
    /\ props.enabled
    /\ props' = [props EXCEPT !.only_selected_vertices = b]
    /\ last' = Idle
    /\ UNCHANGED <<scene, target>>

TransferShapeKey(shape_key_name) ==
    /\ poll
    /\ LET out == TransferShapeKey_execute(props.source_object, target, props, shape_key_name)
       IN  /\ target' = out.target
           /\ last' = Invocation("transfer_shape_key", shape_key_name, out)
    /\ UNCHANGED <<scene, props>>

TransferAllShapeKeys ==
    /\ poll
    /\ LET out == TransferAllShapeKeys_execute(props.source_object, target, props)
       IN  /\ target' = out.target
           /\ last' = Invocation("transfer_all_shape_keys", None, out)
    /\ UNCHANGED <<scene, props>>

TransferDrivers ==
    /\ poll
    /\ \E order \in Orders(MatchingShapeKeys(props.source_object, target)) :
          LET out == TransferDrivers_execute(props.source_object, target, order)
          IN  /\ target' = out.target
              /\ last' = Invocation("transfer_drivers", None, out)
    /\ UNCHANGED <<scene, props>>

Next ==
    \/ \E b \in BOOLEAN : SetEnabled(b)
    \/ \E o \in SceneObjects \cup {NoObject} : SetSourceObject(o)
    \/ \E m \in Modes : SetTransferMode(m)
    \/ \E b \in BOOLEAN : SetOnlySelectedVertices(b)
    \/ \E name \in KeyNames : TransferShapeKey(name)
    \/ TransferAllShapeKeys
    \/ TransferDrivers

Spec == Init /\ [][Next]_vars

\* ================================================================ claims
\* The source the operators read, and what the last invocation was.
src == props.source_object
LastIs(op) == last.op = op
Single == "transfer_shape_key"
Bulk == "transfer_all_shape_keys"
Drivers == "transfer_drivers"
Finished == last.result = "FINISHED"
Indices == 1..Len(target.vertices)

\* The vertices a FULL transfer under the current properties writes.
Written == {i \in Indices : ~props.only_selected_vertices \/ i \in src.select}

\* The names the last invocation transferred.
TransferredNames ==
    IF LastIs(Single) THEN {last.shape_key_name}
    ELSE IF LastIs(Bulk) THEN NonBasisNames(src) ELSE {}

\* An operator step: the record after it names the operator, and the target
\* and the record after it are the operator's.
SingleStep(name) ==
    last'.op = Single /\ last'.shape_key_name = name /\ TransferShapeKey(name)
BulkStep == last'.op = Bulk /\ TransferAllShapeKeys
TransferStep == BulkStep \/ \E name \in KeyNames : SingleStep(name)

\* The shape key blocks of obj that pos (a position in obj's blocks) held
\* before, or the base coordinates for a block created since.
DataBefore(before, after, k) ==
    IF k <= Len(before.key_blocks) THEN before.key_blocks[k].data
    ELSE KeyBlock(after, Basis).data

\* C1: after a successful single transfer in FULL mode, at every transferred
\* vertex the target shape key's offset from the target Basis equals the
\* source shape key's offset from the source Basis.
C1_RelativeTransfer ==
    (LastIs(Single) /\ Finished /\ props.transfer_mode = "FULL") =>
        \A i \in Written :
            KeyBlock(target, last.shape_key_name).data[i] - KeyBlock(target, Basis).data[i]
              = KeyBlock(src, last.shape_key_name).data[i] - KeyBlock(src, Basis).data[i]

\* The target's own shape key "A" (held Basis + 5) took the source's delta at
\* the one selected vertex, over bases that differ, and kept Basis + 5 at the
\* other.
C1_Witness ==
    /\ LastIs(Single) /\ Finished /\ props.transfer_mode = "FULL"
    /\ last.shape_key_name = "A"
    /\ props.only_selected_vertices /\ Written = {1}
    /\ KeyBlock(src, Basis).data[1] # KeyBlock(target, Basis).data[1]
    /\ KeyBlock(target, "A").data[1] = KeyBlock(target, Basis).data[1] + 1
    /\ KeyBlock(target, "A").data[2] = KeyBlock(target, Basis).data[2] + 5

\* C2: a FULL transfer (single or bulk) with only_selected_vertices set and
\* some source vertex selected leaves, in every target shape key, every
\* vertex outside the selection where it was (for a block the call created:
\* at the target's Basis).
C2_Step ==
    (/\ TransferStep
     /\ props.transfer_mode = "FULL"
     /\ props.only_selected_vertices
     /\ SelectedVertices(src, props) # {})
    => \A k \in 1..Len(target'.key_blocks) :
         \A i \in Indices \ SelectedVertices(src, props) :
            target'.key_blocks[k].data[i] = DataBefore(target, target', k)[i]
C2_SelectionGating == [][C2_Step]_vars

\* A transfer wrote the source's delta at the selected vertex 1 of "A" and
\* left the unselected vertex 2 at what the target held before.
C2_Witness ==
    /\ (LastIs(Single) \/ LastIs(Bulk)) /\ Finished
    /\ props.transfer_mode = "FULL" /\ props.only_selected_vertices
    /\ SelectedVertices(src, props) = {1}
    /\ "A" \in TransferredNames
    /\ KeyBlock(target, "A").data[1] = KeyBlock(target, Basis).data[1] + Delta(src, "A", 1)
    /\ KeyBlock(target, "A").data[2] = KeyBlock(target, Basis).data[2] + 5
    /\ Delta(src, "A", 2) # 5

\* Every vertex of the named target shape key carries the source's delta.
DeltaEverywhere(tgt, name) ==
    \A i \in 1..Len(tgt.vertices) :
        KeyBlock(tgt, name).data[i] = KeyBlock(tgt, Basis).data[i] + Delta(src, name, i)

\* No block of before has other data in after, and the blocks created since
\* hold the base coordinates.
PositionsKept(before, after) ==
    \A k \in 1..Len(after.key_blocks) :
        after.key_blocks[k].data = DataBefore(before, after, k)

\* C3 as stated: in FULL mode, whenever the set of selected source vertices
\* is empty (the option off, or on with nothing selected), a finished single
\* or bulk transfer has applied the source delta to every vertex.
C3_EmptyMeansAll ==
    (/\ LastIs(Single) \/ LastIs(Bulk)
     /\ Finished
     /\ props.transfer_mode = "FULL"
     /\ SelectedVertices(src, props) = {})
    => \A name \in TransferredNames : DeltaEverywhere(target, name)

\* C3 as amended: in FULL mode a finished transfer with the option off
\* applies the source delta to every vertex; with the option on and no
\* source vertex selected it writes no position at all.
C3_Step ==
    (TransferStep /\ last'.result = "FINISHED" /\ props.transfer_mode = "FULL")
    => /\ ~props.only_selected_vertices =>
            \A name \in NonBasisNames(src) :
                (BulkStep \/ SingleStep(name)) => DeltaEverywhere(target', name)
       /\ (props.only_selected_vertices /\ src.select = {}) =>
            PositionsKept(target, target')
C3_OptionOffMeansAll == [][C3_Step]_vars

\* A transfer with the option on and nothing selected finished and left "A",
\* which it created, at the Basis although the source's delta is not zero.
C3_Witness ==
    /\ LastIs(Single) \/ LastIs(Bulk)
    /\ Finished
    /\ props.transfer_mode = "FULL" /\ props.only_selected_vertices
    /\ src.select = {}
    /\ "A" \in TransferredNames
    /\ KeyBlock(target, "A").data = KeyBlock(target, Basis).data
    /\ \A i \in Indices : Delta(src, "A", i) # 0

\* C4: after a bulk transfer that succeeded, running it again with the same
\* source, options and selection succeeds and leaves the target as it is.
C4_BulkIdempotent ==
    (LastIs(Bulk) /\ Finished) =>
        LET again == TransferAllShapeKeys_execute(src, target, props)
        IN  /\ again.result = "FINISHED"
            /\ again.target = target
            /\ again.count = last.count

\* A bulk FULL transfer finished on a target that had shape keys of its own,
\* created one and moved another off the Basis.
C4_Witness ==
    /\ LastIs(Bulk) /\ Finished /\ props.transfer_mode = "FULL"
    /\ Len(target.key_blocks) = 4
    /\ \E name \in NonBasisNames(src) :
          KeyBlock(target, name).data # KeyBlock(target, Basis).data

\* The block names of obj are pairwise distinct.
DistinctNames(obj) ==
    \A j, k \in 1..Len(obj.key_blocks) :
        obj.key_blocks[j].name = obj.key_blocks[k].name => j = k

\* C5: a single FULL transfer of a shape key the source has, with vertex
\* counts different, reports the vertex count mismatch, keeps every block the
\* target had, and adds at most a Basis and a block of the requested name,
\* both at the base coordinates; and no sequence of operations gives the
\* target two blocks of one name.
C5_Step ==
    \A name \in KeyNames :
        (/\ SingleStep(name)
         /\ HasKey(src, name)
         /\ props.transfer_mode = "FULL"
         /\ Len(src.vertices) # Len(target.vertices))
        => /\ last'.result = "CANCELLED"
           /\ last'.report = "VertexCountMismatch"
           /\ SubSeq(target'.key_blocks, 1, Len(target.key_blocks)) = target.key_blocks
           /\ \A k \in (Len(target.key_blocks) + 1)..Len(target'.key_blocks) :
                /\ target'.key_blocks[k].name \in {Basis, name}
                /\ target'.key_blocks[k].data = target'.vertices
                /\ target'.key_blocks[k].data = KeyBlock(target', Basis).data
           /\ target'.drivers = target.drivers
C5_CreateThenFail == []DistinctNames(target) /\ [][C5_Step]_vars

\* A single transfer of "B" was refused for the vertex counts and left a
\* target that had no shape keys with a Basis and a "B" at the Basis.
C5_Witness ==
    /\ LastIs(Single) /\ last.report = "VertexCountMismatch"
    /\ last.shape_key_name = "B"
    /\ Len(target.key_blocks) = 2
    /\ KeyBlock(target, "B").data = KeyBlock(target, Basis).data
    /\ KeyBlock(target, "B").value = 0

\* C6: a bulk FULL transfer with vertex counts different reports the vertex
\* count mismatch and leaves the target as it was.
C6_Step ==
    (/\ BulkStep
     /\ props.transfer_mode = "FULL"
     /\ Len(src.vertices) # Len(target.vertices))
    => /\ last'.result = "CANCELLED"
       /\ last'.report = "VertexCountMismatch"
       /\ target' = target
C6_BulkGuardUpFront == [][C6_Step]_vars

\* A bulk transfer was refused for the vertex counts on a target that still
\* has no shape keys, not even a Basis.
C6_Witness ==
    /\ LastIs(Bulk) /\ last.report = "VertexCountMismatch"
    /\ ~HasShapeKeys(target)
    /\ NonBasisNames(src) # {}

\* C7: a single (of a shape key the source has) or bulk transfer in
\* NAMES_ONLY mode finishes whatever the vertex counts, writes no position
\* (a block the target had keeps its data, a created one holds the Basis),
\* and gives each transferred target shape key the source's value.
C7_Step ==
    \A name \in KeyNames :
        (/\ props.transfer_mode = "NAMES_ONLY"
         /\ BulkStep \/ (SingleStep(name) /\ HasKey(src, name)))
        => /\ last'.result = "FINISHED"
           /\ PositionsKept(target, target')
           /\ \A n \in (IF BulkStep THEN NonBasisNames(src) ELSE {name}) :
                /\ HasKey(target', n)
                /\ KeyBlock(target', n).value = KeyBlock(src, n).value
C7_NamesOnly == [][C7_Step]_vars

\* A NAMES_ONLY transfer between meshes of different vertex counts finished:
\* "A", which the target had, keeps its data (Basis + 5) and has the
\* source's value; "B", which the transfer created, lies at the Basis.
C7_Witness ==
    /\ LastIs(Single) \/ LastIs(Bulk)
    /\ Finished
    /\ props.transfer_mode = "NAMES_ONLY"
    /\ Len(src.vertices) # Len(target.vertices)
    /\ {"A", "B"} \subseteq TransferredNames
    /\ \A i \in Indices : KeyBlock(target, "A").data[i] = KeyBlock(target, Basis).data[i] + 5
    /\ KeyBlock(target, "A").value = KeyBlock(src, "A").value
    /\ KeyBlock(target, "B").data = KeyBlock(target, Basis).data
    /\ KeyBlock(target, "B").value = KeyBlock(src, "B").value

\* The drivers of obj on a shape key's value, in order.
DriversOn(obj, name) == SelectSeq(obj.drivers, LAMBDA d : OnPath(d, name))

\* What the claim compares of a driver: its kind, its expression and its
\* variables' names and kinds, in order.
Signature(driver) ==
    [type |-> driver.type, expression |-> driver.expression,
     variables |-> [v \in 1..Len(driver.variables) |->
                      <<driver.variables[v].name, driver.variables[v].type>>]]
Signatures(drivers) == [n \in 1..Len(drivers) |-> Signature(drivers[n])]

DriverStep == last'.op = Drivers /\ TransferDrivers

\* C8: after a finished driver transfer, a matching shape key whose value
\* the source drives has on the target one copy per source driver, in order
\* (same kind, expression, variable names and kinds), and nothing else; every
\* other value path of the target has the drivers it had.
C8_Step ==
    (DriverStep /\ last'.result = "FINISHED")
    => \A name \in KeyNames :
          IF name \in MatchingShapeKeys(src, target) /\ SourceDrivers(src, name) # <<>>
            THEN Signatures(DriversOn(target', name))
                    = Signatures(SourceDrivers(src, name))
            ELSE DriversOn(target', name) = DriversOn(target, name)
C8_DriverReplace == [][C8_Step]_vars

\* A driver transfer finished: the target's "A", which had a driver of its
\* own, has the source's scripted driver with its two variables and no
\* other; "C", which the source lacks, still has its own.
C8_Witness ==
    /\ LastIs(Drivers) /\ Finished /\ last.count > 0
    /\ Signatures(DriversOn(target, "A")) = Signatures(<<ScriptedDriver("A")>>)
    /\ DriversOn(target, "C") = <<OldDriver("C")>>
    /\ Len(target.drivers) = 2

\* C9 as stated: a driver transfer reports that there are no shape keys
\* whenever the source or the target has no shape key besides the Basis,
\* reports that none match when both have some but share no name, and in
\* every failing case leaves the target as it was.
C9_StepAsStated ==
    DriverStep =>
        /\ (NonBasisNames(src) = {} \/ NonBasisNames(target) = {}) =>
              last'.report \in {"SourceHasNoChannels", "TargetHasNoChannels"}
        /\ (/\ NonBasisNames(src) # {}
            /\ NonBasisNames(target) # {}
            /\ MatchingShapeKeys(src, target) = {}) =>
              last'.report = "NoMatchingChannels"
        /\ last'.result = "CANCELLED" => target' = target
C9_NonBasisPrecondition == [][C9_StepAsStated]_vars

\* C9 as amended: a driver transfer reports that there are no shape keys
\* when the source or the target has no shape key at all; when both have
\* some (be it only a Basis) and share no name besides Basis it reports that
\* none match; in every failing case it leaves the target as it was.
C9_Step ==
    DriverStep =>
        /\ ~HasShapeKeys(src) => last'.report = "SourceHasNoChannels"
        /\ (HasShapeKeys(src) /\ ~HasShapeKeys(target)) =>
              last'.report = "TargetHasNoChannels"
        /\ (/\ HasShapeKeys(src)
            /\ HasShapeKeys(target)
            /\ MatchingShapeKeys(src, target) = {}) =>
              last'.report = "NoMatchingChannels"
        /\ last'.result = "CANCELLED" => target' = target
        /\ last'.result = "CANCELLED" <=>
              (~HasShapeKeys(src) \/ ~HasShapeKeys(target)
                 \/ MatchingShapeKeys(src, target) = {})
C9_DriverPreconditions == [][C9_Step]_vars

\* A driver transfer onto a target whose only shape key is the Basis was
\* refused because no shape keys match.
C9_Witness ==
    /\ LastIs(Drivers) /\ last.report = "NoMatchingChannels"
    /\ KeyBlockNames(target) = {Basis}
    /\ NonBasisNames(src) # {}

\* The names of obj's blocks, in order.
NameSeq(obj) == [k \in 1..Len(obj.key_blocks) |-> obj.key_blocks[k].name]

\* A target with a shape key besides the Basis has one Basis, its first block.
BasisFirst(obj) ==
    NonBasisNames(obj) # {} =>
        /\ obj.key_blocks[1].name = Basis
        /\ Cardinality({k \in 1..Len(obj.key_blocks) : obj.key_blocks[k].name = Basis}) = 1

\* C10: in every reachable state the target's block names are pairwise
\* distinct and, if it has a shape key besides the Basis, it has exactly one
\* Basis, created first; and no step removes or reorders a block.
C10_Step ==
    /\ Len(target'.key_blocks) >= Len(target.key_blocks)
    /\ SubSeq(NameSeq(target'), 1, Len(target.key_blocks)) = NameSeq(target)
C10_ChannelSet ==
    [](DistinctNames(target) /\ BasisFirst(target)) /\ [][C10_Step]_vars

\* A target that had no shape keys has a Basis, "A" and "B", in the order of
\* their creation, after a transfer that was refused.
C10_Witness ==
    /\ NameSeq(target) = <<Basis, "A", "B">>
    /\ last.result = "CANCELLED"

\* The Basis block the target has after a step that leaves the Basis alone:
\* the one it had, or a new one at the base coordinates with value 0.
BasisLeftAlone(before) ==
    IF HasKey(before, Basis) THEN KeyBlock(before, Basis)
    ELSE KeyBlockOf(Basis, before.vertices, 0)

\* C11: no operation changes the target's Basis: after every step its data
\* and its value are what they were before (for a Basis the step created:
\* the base coordinates and value 0).
C11_Step ==
    HasKey(target', Basis) => KeyBlock(target', Basis) = BasisLeftAlone(target)
C11_BasisNeverTransferred == [][C11_Step]_vars

\* The kinds of report an operator that gives up makes.
ErrorReports ==
    {"MissingEndpoint", "SourceHasNoChannels", "ChannelNotFound",
     "VertexCountMismatch", "TargetHasNoChannels", "NoMatchingChannels"}

\* C12: every invocation of an operator ends FINISHED or CANCELLED with
\* exactly one report, an INFO when it finished and an error when it was
\* cancelled; none ends in an unhandled exception.
C12_OneResultOneReport ==
    ~LastIs("none") =>
        /\ last.result \in {"FINISHED", "CANCELLED"}
        /\ last.reports = 1
        /\ last.result = "FINISHED" => last.report = "INFO"
        /\ last.result = "CANCELLED" => last.report \in ErrorReports

\* The single-key operator invoked once for each source block not named
\* Basis, in the source's order, from block j on.
RECURSIVE RepeatedSingle(_, _, _, _)
RepeatedSingle(tgt, source_obj, p, j) ==
    IF j > Len(source_obj.key_blocks) THEN tgt
    ELSE IF source_obj.key_blocks[j].name = Basis
      THEN RepeatedSingle(tgt, source_obj, p, j + 1)
    ELSE RepeatedSingle(
            TransferShapeKey_execute(source_obj, tgt, p,
                                     source_obj.key_blocks[j].name).target,
            source_obj, p, j + 1)

\* The bulk operator gets past its vertex count check.
PastGuard ==
    props.transfer_mode = "NAMES_ONLY" \/ Len(src.vertices) = Len(target.vertices)

\* C13 as stated: whenever the mode is NAMES_ONLY or the vertex counts are
\* equal, a bulk transfer leaves the target as the single-key operator
\* invoked for each non-basis source shape key in order leaves it, and
\* reports as many shape keys as the source has besides the Basis.
C13_StepAsStated ==
    (BulkStep /\ PastGuard)
    => /\ target' = RepeatedSingle(target, src, props, 1)
       /\ last'.reports = 1
       /\ last'.count = Cardinality(NonBasisNames(src))
C13_BulkEqualsRepeatedSingle == [][C13_StepAsStated]_vars

\* C13 as amended: whenever the mode is NAMES_ONLY or the vertex counts are
\* equal, a bulk transfer from a source with a shape key besides the Basis
\* finishes, leaves the target as the single-key operator invoked for each
\* of them in order leaves it, and reports their number; from a source with
\* only a Basis its one effect on the target is a Basis where there was none
\* (which no single-key invocation would have made).
C13_Step ==
    (BulkStep /\ PastGuard)
    => IF NonBasisNames(src) # {}
         THEN /\ target' = RepeatedSingle(target, src, props, 1)
              /\ last'.result = "FINISHED"
              /\ last'.reports = 1
              /\ last'.count = Cardinality(NonBasisNames(src))
         ELSE /\ target' = EnsureBasis(target)
              /\ last'.count = 0
C13_BulkEqualsRepeatedSingleIfAny == [][C13_Step]_vars

\* A bulk FULL transfer onto a target that had no shape keys finished and
\* reported two shape keys: the target has a Basis, "B" and "A" in the
\* source's order, each with the source's delta and value.
C13_Witness ==
    /\ LastIs(Bulk) /\ Finished /\ last.count = 2
    /\ props.transfer_mode = "FULL" /\ ~props.only_selected_vertices
    /\ NameSeq(target) = <<Basis, "B", "A">>
    /\ NameSeq(src) = <<Basis, "B", "A">>
    /\ target.drivers = <<>>
    /\ \A name \in {"A", "B"} :
          /\ DeltaEverywhere(target, name)
          /\ KeyBlock(target, name).value = KeyBlock(src, name).value

====
